---- MODULE Spec2Model ----
(***************************************************************************)
(* Model of sync.py (Airtable CSV Sync Tool): the timestamp parser         *)
(* parse_timestamp, the reconciler compare_datasets and the run of main.   *)
(*                                                                         *)
(* Python strings are sequences of one-character strings, so that the      *)
(* string operations of the source ('.' in s, endswith, split, replace,    *)
(* sorted) are computed character by character.                            *)
(***************************************************************************)
EXTENDS Integers, Sequences, FiniteSets

----------------------------------------------------------------------------
(* Bound of the model. *)

\* Largest number of records held by the two RecordSets together.
MaxRecords == 3

----------------------------------------------------------------------------
(* The strings the inputs are drawn from. *)

\* "2024-01-01T10:00:00Z"
TsBase ==
    <<"2", "0", "2", "4", "-", "0", "1", "-", "0", "1", "T", "1", "0", ":", "0", "0", ":", "0", "0", "Z">>
\* "2024-01-01T10:00:00.123456Z"
TsFracA ==
    <<"2", "0", "2", "4", "-", "0", "1", "-", "0", "1", "T", "1", "0", ":", "0", "0", ":", "0", "0", ".", "1", "2", "3", "4", "5", "6", "Z">>
\* "2024-01-01T10:00:00.999999Z"
TsFracB ==
    <<"2", "0", "2", "4", "-", "0", "1", "-", "0", "1", "T", "1", "0", ":", "0", "0", ":", "0", "0", ".", "9", "9", "9", "9", "9", "9", "Z">>
\* "2024-01-02T00:00:00Z"
TsLater ==
    <<"2", "0", "2", "4", "-", "0", "1", "-", "0", "2", "T", "0", "0", ":", "0", "0", ":", "0", "0", "Z">>
\* "not-a-date"
TsGarbage ==
    <<"n", "o", "t", "-", "a", "-", "d", "a", "t", "e">>
\* "2024-01-01"
TsDateOnly ==
    <<"2", "0", "2", "4", "-", "0", "1", "-", "0", "1">>
\* "2024-01-01T12:00:00+02:00" (the same instant as TsBase)
TsOffset ==
    <<"2", "0", "2", "4", "-", "0", "1", "-", "0", "1", "T", "1", "2", ":", "0", "0", ":", "0", "0", "+", "0", "2", ":", "0", "0">>
\* "2024-01-01T10:00:00"
TsNaive ==
    <<"2", "0", "2", "4", "-", "0", "1", "-", "0", "1", "T", "1", "0", ":", "0", "0", ":", "0", "0">>

Timestamps ==
    {TsBase, TsFracA, TsFracB, TsLater, TsGarbage, TsDateOnly, TsOffset, TsNaive}

\* "a@x.com"
EmailA ==
    <<"a", "@", "x", ".", "c", "o", "m">>
\* "B@x.com"
EmailUpperB ==
    <<"B", "@", "x", ".", "c", "o", "m">>
\* "a@x.co"
EmailPrefix ==
    <<"a", "@", "x", ".", "c", "o">>

Emails ==
    {EmailA, EmailUpperB, EmailPrefix}

FirstNames ==
    {"Ada"}

LastNames ==
    {"Lovelace"}

\* A record as both loaders build it: three string attributes.
Records ==
    [first_name : FirstNames, last_name : LastNames, updated_at : Timestamps]

\* Python's None.
None ==
    "None"

----------------------------------------------------------------------------
(* Python str operations. *)

\* Unicode code points of the characters of the keys (str comparison order).
Ord ==
    [c \in {".", "@", "B", "a", "b", "c", "m", "o", "x"} |->
        CASE c = "." -> 46
          [] c = "@" -> 64
          [] c = "B" -> 66
          [] c = "a" -> 97
          [] c = "b" -> 98
          [] c = "c" -> 99
          [] c = "m" -> 109
          [] c = "o" -> 111
          [] c = "x" -> 120]

RECURSIVE StrLess(_, _)
\* a < b on str: the first differing code point decides, a proper prefix is smaller.
StrLess(a, b) ==
    IF b = <<>> THEN FALSE
    ELSE IF a = <<>> THEN TRUE
    ELSE IF Head(a) = Head(b) THEN StrLess(Tail(a), Tail(b))
    ELSE Ord[Head(a)] < Ord[Head(b)]

\* c in s
Contains(s, c) ==
    \E i \in 1..Len(s) : s[i] = c

\* s.endswith(c)
EndsWith(s, c) ==
    Len(s) > 0 /\ s[Len(s)] = c

\* s.find(c), 1-based; 0 when c does not occur
Find(s, c) ==
    IF Contains(s, c)
    THEN CHOOSE i \in 1..Len(s) : s[i] = c /\ \A j \in 1..(i - 1) : s[j] # c
    ELSE 0

\* s.split(c)[0]
SplitFirst(s, c) ==
    IF Contains(s, c) THEN SubSeq(s, 1, Find(s, c) - 1) ELSE s

RECURSIVE Replace(_, _, _)
\* s.replace(c, new) for a one-character c
Replace(s, c, new) ==
    IF s = <<>> THEN <<>>
    ELSE (IF Head(s) = c THEN new ELSE <<Head(s)>>) \o Replace(Tail(s), c, new)

Digits ==
    {"0", "1", "2", "3", "4", "5", "6", "7", "8", "9"}

DigitVal ==
    [d \in Digits |->
        CASE d = "0" -> 0 [] d = "1" -> 1 [] d = "2" -> 2 [] d = "3" -> 3
          [] d = "4" -> 4 [] d = "5" -> 5 [] d = "6" -> 6 [] d = "7" -> 7
          [] d = "8" -> 8 [] d = "9" -> 9]

AllDigits(s) ==
    \A i \in 1..Len(s) : s[i] \in Digits

RECURSIVE ToInt(_)
\* int(s) for a string of decimal digits
ToInt(s) ==
    IF s = <<>> THEN 0
    ELSE 10 * ToInt(SubSeq(s, 1, Len(s) - 1)) + DigitVal[s[Len(s)]]

----------------------------------------------------------------------------
(* datetime: the value parse_timestamp returns, or the exception it raises. *)

\* A datetime: tzinfo set (aware) or not; for an aware one days/secs/us are
\* the UTC date (proleptic ordinal), second of the day and microsecond, for a
\* naive one they are its own wall-clock fields.
Datetime(aware, days, secs, us) ==
    [raises |-> None, aware |-> aware, days |-> days, secs |-> secs, us |-> us]

\* The outcome of a call that raised ValueError instead of returning.
ValueError ==
    [raises |-> "ValueError", aware |-> FALSE, days |-> 0, secs |-> 0, us |-> 0]

IsLeap(y) ==
    y % 4 = 0 /\ (y % 100 # 0 \/ y % 400 = 0)

DaysInMonth(y, m) ==
    IF m = 2 THEN (IF IsLeap(y) THEN 29 ELSE 28)
    ELSE IF m \in {4, 6, 9, 11} THEN 30 ELSE 31

RECURSIVE DaysBeforeMonth(_, _)
DaysBeforeMonth(y, m) ==
    IF m = 1 THEN 0 ELSE DaysBeforeMonth(y, m - 1) + DaysInMonth(y, m - 1)

\* date.toordinal(): 1 for 0001-01-01
Ordinal(y, m, d) ==
    (y - 1) * 365 + ((y - 1) \div 4) - ((y - 1) \div 100) + ((y - 1) \div 400)
        + DaysBeforeMonth(y, m) + d

\* The date part "YYYY-MM-DD" of an isoformat string.
ParseDate(d) ==
    LET shape == /\ Len(d) = 10
                 /\ AllDigits(SubSeq(d, 1, 4)) /\ d[5] = "-"
                 /\ AllDigits(SubSeq(d, 6, 7)) /\ d[8] = "-"
                 /\ AllDigits(SubSeq(d, 9, 10))
        y == ToInt(SubSeq(d, 1, 4))
        m == ToInt(SubSeq(d, 6, 7))
        dd == ToInt(SubSeq(d, 9, 10))
    IN  IF shape /\ y >= 1 /\ m \in 1..12 /\ dd >= 1 /\ dd <= DaysInMonth(y, m)
        THEN [ok |-> TRUE, ordinal |-> Ordinal(y, m, dd)]
        ELSE [ok |-> FALSE, ordinal |-> 0]

\* The time part "HH[:MM[:SS[.fff[fff]]]]" of an isoformat string.
ParseTime(t) ==
    LET n == Len(t)
        shape == /\ n \in {2, 5, 8, 12, 15}
                 /\ AllDigits(SubSeq(t, 1, 2))
                 /\ n >= 5 => (t[3] = ":" /\ AllDigits(SubSeq(t, 4, 5)))
                 /\ n >= 8 => (t[6] = ":" /\ AllDigits(SubSeq(t, 7, 8)))
                 /\ n >= 12 => (t[9] = "." /\ AllDigits(SubSeq(t, 10, n)))
        h == ToInt(SubSeq(t, 1, 2))
        m == IF n >= 5 THEN ToInt(SubSeq(t, 4, 5)) ELSE 0
        s == IF n >= 8 THEN ToInt(SubSeq(t, 7, 8)) ELSE 0
        f == IF n = 15 THEN ToInt(SubSeq(t, 10, 15))
             ELSE IF n = 12 THEN 1000 * ToInt(SubSeq(t, 10, 12)) ELSE 0
    IN  IF shape /\ h < 24 /\ m < 60 /\ s < 60
        THEN [ok |-> TRUE, secs |-> h * 3600 + m * 60 + s, us |-> f]
        ELSE [ok |-> FALSE, secs |-> 0, us |-> 0]

\* The UTC offset "HH:MM" that follows the sign, in seconds.
ParseOffset(z) ==
    LET shape == /\ Len(z) = 5
                 /\ AllDigits(SubSeq(z, 1, 2)) /\ z[3] = ":"
                 /\ AllDigits(SubSeq(z, 4, 5))
        h == ToInt(SubSeq(z, 1, 2))
        m == ToInt(SubSeq(z, 4, 5))
    IN  IF shape /\ h < 24 /\ m < 60
        THEN [ok |-> TRUE, secs |-> h * 3600 + m * 60]
        ELSE [ok |-> FALSE, secs |-> 0]

\* datetime.fromisoformat(s) on the documented grammar
\* YYYY-MM-DD[*HH[:MM[:SS[.fff[fff]]]][+HH:MM]]: the date, then any one
\* separator character, the time, and an offset introduced by the first
\* '-' (or else the first '+') of the time string.
fromisoformat(s) ==
    LET n == Len(s)
        date == ParseDate(SubSeq(s, 1, 10))
        tstr == SubSeq(s, 12, n)
        tzpos == IF Contains(tstr, "-") THEN Find(tstr, "-") ELSE Find(tstr, "+")
        timestr == IF tzpos > 0 THEN SubSeq(tstr, 1, tzpos - 1) ELSE tstr
        time == ParseTime(timestr)
        sign == IF tzpos > 0 /\ tstr[tzpos] = "-" THEN -1 ELSE 1
        off == ParseOffset(SubSeq(tstr, tzpos + 1, Len(tstr)))
    IN  IF n < 10 \/ ~date.ok THEN ValueError
        ELSE IF n = 10 THEN Datetime(FALSE, date.ordinal, 0, 0)
        ELSE IF n < 13 \/ ~time.ok THEN ValueError
        ELSE IF tzpos = 0 THEN Datetime(FALSE, date.ordinal, time.secs, time.us)
        ELSE IF ~off.ok THEN ValueError
        ELSE Datetime(TRUE, date.ordinal - 1 + ((time.secs - sign * off.secs + 86400) \div 86400),
                      (time.secs - sign * off.secs + 86400) % 86400, time.us)

\* a == b on datetimes: a naive and an aware datetime are never equal.
DtEq(a, b) ==
    a.aware = b.aware /\ a.days = b.days /\ a.secs = b.secs /\ a.us = b.us

\* a > b raises TypeError for a naive and an aware datetime.
DtComparable(a, b) ==
    a.aware = b.aware

\* a > b on two naive or two aware datetimes
DtGreater(a, b) ==
    \/ a.days > b.days
    \/ a.days = b.days /\ a.secs > b.secs
    \/ a.days = b.days /\ a.secs = b.secs /\ a.us > b.us

----------------------------------------------------------------------------
(* parse_timestamp *)

\* parse_timestamp that maps a string fromisoformat rejects to a default
\* datetime instead of raising.
parse_timestamp_Lenient(timestamp_str) ==
    LET stripped ==
            IF Contains(timestamp_str, ".") /\ EndsWith(timestamp_str, "Z")
            THEN SplitFirst(timestamp_str, ".") \o <<"Z">>
            ELSE timestamp_str
        dt == fromisoformat(Replace(stripped, "Z", <<"+", "0", "0", ":", "0", "0">>))
    IN  IF dt.raises = None THEN dt ELSE Datetime(TRUE, 1, 0, 0)

\* parse_timestamp that keeps the fractional seconds.
parse_timestamp_NoStrip(timestamp_str) ==
    fromisoformat(Replace(timestamp_str, "Z", <<"+", "0", "0", ":", "0", "0">>))

\* parse_timestamp that hands the trailing Z to fromisoformat as it is.
parse_timestamp_NoReplace(timestamp_str) ==
    LET stripped ==
            IF Contains(timestamp_str, ".") /\ EndsWith(timestamp_str, "Z")
            THEN SplitFirst(timestamp_str, ".") \o <<"Z">>
            ELSE timestamp_str
    IN  fromisoformat(stripped)

\* parse_timestamp(timestamp_str): the fraction is cut off only when the
\* string contains '.' and ends in 'Z'; every 'Z' becomes "+00:00"; the rest
\* is fromisoformat's.
parse_timestamp(timestamp_str) ==
    LET stripped ==
            IF Contains(timestamp_str, ".") /\ EndsWith(timestamp_str, "Z")
            THEN SplitFirst(timestamp_str, ".") \o <<"Z">>
            ELSE timestamp_str
    IN  fromisoformat(Replace(stripped, "Z", <<"+", "0", "0", ":", "0", "0">>))

\* parse_timestamp(s) for every timestamp string s of the inputs: the calls
\* parse_timestamp(csv_data[email]['updated_at']) and its remote twin read it.
Parsed ==
    [s \in Timestamps |-> parse_timestamp(s)]

----------------------------------------------------------------------------
(* State. *)

VARIABLES
    pc,             \* where the run is: a step of main or of compare_datasets
    csv_data,       \* the mapping load_csv_data returned
    airtable_data,  \* the mapping load_airtable_data returned
    pending,        \* compare_datasets: the emails the for loop has yet to visit
    email,          \* compare_datasets: the loop variable ("" before the loop)
    results,        \* compare_datasets: the list being built
    csv_time,       \* compare_datasets: last value bound to csv_time
    airtable_time,  \* compare_datasets: last value bound to airtable_time
    returned,       \* <<list>> once compare_datasets has returned list, else <<>>
    exc,            \* the exception that left compare_datasets, or None
    call,           \* which call of compare_datasets this is ("first", "second")
    first,          \* what the first call delivered: its returned and exc
    stdout,         \* lines printed to standard output
    stderr,         \* lines printed to standard error
    exit_status     \* <<status>> once the process has exited, else <<>>

vars ==
    <<pc, csv_data, airtable_data, pending, email, results, csv_time,
      airtable_time, returned, exc, call, first, stdout, stderr, exit_status>>

\* An empty dict.
EmptyDict ==
    [e \in {} |-> None]

\* A name that is not bound to a datetime yet.
Unbound ==
    [raises |-> "unbound", aware |-> FALSE, days |-> 0, secs |-> 0, us |-> 0]

\* The mappings a loader can return: email -> record, at most n records.
RecordSets(n) ==
    UNION {[S -> Records] : S \in {T \in SUBSET Emails : Cardinality(T) <= n}}

Size(d) ==
    Cardinality(DOMAIN d)

----------------------------------------------------------------------------
(* compare_datasets *)

RECURSIVE sorted_Reverse(_)
\* sorted(all_emails, reverse=True)
sorted_Reverse(S) ==
    IF S = {} THEN <<>>
    ELSE LET greatest == CHOOSE x \in S : \A y \in S \ {x} : StrLess(y, x)
         IN  <<greatest>> \o sorted_Reverse(S \ {greatest})

RECURSIVE sorted(_)
\* sorted(all_emails): ascending by str comparison
sorted(S) ==
    IF S = {} THEN <<>>
    ELSE LET least == CHOOSE x \in S : \A y \in S \ {x} : StrLess(x, y)
         IN  <<least>> \o sorted(S \ {least})

\* The emails of both mappings, as the for loop visits them.
all_emails(csv, airtable) ==
    sorted(DOMAIN csv \cup DOMAIN airtable)

\* CreateRow with the two targets exchanged.
CreateRow_Swapped(in_csv, e) ==
    IF in_csv THEN <<"CREATE", "CSV", e>> ELSE <<"CREATE", "AIRTABLE", e>>

\* The row for an email present in exactly one mapping.
CreateRow(in_csv, e) ==
    IF in_csv THEN <<"CREATE", "AIRTABLE", e>> ELSE <<"CREATE", "CSV", e>>

\* CompareTimes with the two UPDATE targets exchanged.
CompareTimes_Swapped(ct, at, e) ==
    IF DtEq(ct, at) THEN [raises |-> None, row |-> <<"NONE", "", e>>]
    ELSE IF ~DtComparable(ct, at) THEN [raises |-> "TypeError", row |-> <<>>]
    ELSE IF DtGreater(ct, at) THEN [raises |-> None, row |-> <<"UPDATE", "CSV", e>>]
    ELSE [raises |-> None, row |-> <<"UPDATE", "AIRTABLE", e>>]

\* CompareTimes without the equality branch: csv_time >= airtable_time
\* updates Airtable.
CompareTimes_NoTie(ct, at, e) ==
    IF ~DtComparable(ct, at) THEN [raises |-> "TypeError", row |-> <<>>]
    ELSE IF DtGreater(ct, at) \/ DtEq(ct, at)
    THEN [raises |-> None, row |-> <<"UPDATE", "AIRTABLE", e>>]
    ELSE [raises |-> None, row |-> <<"UPDATE", "CSV", e>>]

\* The branch on the two parsed times: the row appended, or the TypeError of
\* ordering a naive against an aware datetime.
CompareTimes(ct, at, e) ==
    IF DtEq(ct, at) THEN [raises |-> None, row |-> <<"NONE", "", e>>]
    ELSE IF ~DtComparable(ct, at) THEN [raises |-> "TypeError", row |-> <<>>]
    ELSE IF DtGreater(ct, at) THEN [raises |-> None, row |-> <<"UPDATE", "AIRTABLE", e>>]
    ELSE [raises |-> None, row |-> <<"UPDATE", "CSV", e>>]

\* CompareBegin with results kept from one call to the next (a list that
\* outlives the call).
CompareBegin_KeepResults ==
    /\ pc = "compare_datasets"
    /\ pending' = all_emails(csv_data, airtable_data)
    /\ email' = <<>>
    /\ csv_time' = Unbound
    /\ airtable_time' = Unbound
    /\ pc' = "for"
    /\ UNCHANGED <<csv_data, airtable_data, results, returned, exc, call, first,
                   stdout, stderr, exit_status>>

\* CompareBegin that builds the union by csv_data.update(airtable_data).
CompareBegin_UpdateInPlace ==
    /\ pc = "compare_datasets"
    /\ csv_data' = [e \in DOMAIN csv_data \cup DOMAIN airtable_data |->
                       IF e \in DOMAIN airtable_data THEN airtable_data[e]
                       ELSE csv_data[e]]
    /\ results' = <<>>
    /\ pending' = all_emails(csv_data, airtable_data)
    /\ email' = <<>>
    /\ csv_time' = Unbound
    /\ airtable_time' = Unbound
    /\ pc' = "for"
    /\ UNCHANGED <<airtable_data, returned, exc, call, first, stdout, stderr,
                   exit_status>>

\* The call: a new frame (no local bound), results = [], all_emails computed
\* and sorted, the loop about to start.
CompareBegin ==
    /\ pc = "compare_datasets"
    /\ results' = <<>>
    /\ pending' = all_emails(csv_data, airtable_data)
    /\ email' = <<>>
    /\ csv_time' = Unbound
    /\ airtable_time' = Unbound
    /\ pc' = "for"
    /\ UNCHANGED <<csv_data, airtable_data, returned, exc, call, first, stdout,
                   stderr, exit_status>>

\* One iteration of the for loop.
CompareIter ==
    /\ pc = "for"
    /\ pending # <<>>
    /\ LET e == Head(pending)
           in_csv == e \in DOMAIN csv_data
           in_airtable == e \in DOMAIN airtable_data
       IN  /\ email' = e
           /\ pending' = Tail(pending)
           /\ IF in_csv # in_airtable
              THEN /\ results' = Append(results, CreateRow(in_csv, e))
                   /\ pc' = "for"
                   /\ UNCHANGED <<csv_time, airtable_time, exc>>
              ELSE LET ct == Parsed[csv_data[e].updated_at]
                       at == Parsed[airtable_data[e].updated_at]
                       cmp == CompareTimes(ct, at, e)
                   IN  IF ct.raises # None
                       THEN /\ pc' = "raised"
                            /\ exc' = ct.raises
                            /\ UNCHANGED <<csv_time, airtable_time, results>>
                       ELSE IF at.raises # None
                       THEN /\ pc' = "raised"
                            /\ exc' = at.raises
                            /\ csv_time' = ct
                            /\ UNCHANGED <<airtable_time, results>>
                       ELSE /\ csv_time' = ct
                            /\ airtable_time' = at
                            /\ IF cmp.raises # None
                               THEN /\ pc' = "raised"
                                    /\ exc' = cmp.raises
                                    /\ UNCHANGED results
                               ELSE /\ pc' = "for"
                                    /\ results' = Append(results, cmp.row)
                                    /\ UNCHANGED exc
    /\ UNCHANGED <<csv_data, airtable_data, returned, call, first, stdout,
                   stderr, exit_status>>

\* return results
CompareReturn ==
    /\ pc = "for"
    /\ pending = <<>>
    /\ returned' = <<results>>
    /\ pc' = "returned"
    /\ UNCHANGED <<csv_data, airtable_data, pending, email, results, csv_time,
                   airtable_time, exc, call, first, stdout, stderr, exit_status>>

\* The caller calls compare_datasets again with the same two mappings.
CallAgain ==
    /\ pc \in {"returned", "raised"}
    /\ call = "first"
    /\ first' = [returned |-> returned, exc |-> exc]
    /\ call' = "second"
    /\ returned' = <<>>
    /\ exc' = None
    /\ pc' = "compare_datasets"
    /\ UNCHANGED <<csv_data, airtable_data, pending, email, results, csv_time,
                   airtable_time, stdout, stderr, exit_status>>

----------------------------------------------------------------------------
(* main *)

\* exit_with_error(message): the message on stderr, then sys.exit(1).
exit_with_error(message) ==
    /\ stderr' = Append(stderr, <<"Error: ", message>>)
    /\ exit_status' = <<1>>
    /\ pc' = "exit"

\* Step 1: argparse rejects a missing required option with status 2;
\* parse_arguments exits with an error when no API key is given.
ParseArguments ==
    /\ pc = "parse_arguments"
    /\ \E outcome \in {"usage", "no_api_key", "ok"} :
         CASE outcome = "usage" ->
                /\ stderr' = Append(stderr, <<"usage: ", "the following arguments are required">>)
                /\ exit_status' = <<2>>
                /\ pc' = "exit"
           [] outcome = "no_api_key" ->
                exit_with_error("Airtable API key not provided.")
           [] outcome = "ok" ->
                /\ pc' = "load_csv_data"
                /\ UNCHANGED <<stderr, exit_status>>
    /\ UNCHANGED <<csv_data, airtable_data, pending, email, results, csv_time,
                   airtable_time, returned, exc, call, first, stdout>>

\* Step 2: load_csv_data returns the mapping or exits with an error.
LoadCsvData ==
    /\ pc = "load_csv_data"
    /\ \/ /\ \E message \in {"CSV file not found", "Error reading CSV file"} :
               exit_with_error(message)
          /\ UNCHANGED csv_data
       \/ /\ csv_data' \in RecordSets(MaxRecords)
          /\ pc' = "load_airtable_data"
          /\ UNCHANGED <<stderr, exit_status>>
    /\ UNCHANGED <<airtable_data, pending, email, results, csv_time,
                   airtable_time, returned, exc, call, first, stdout>>

\* Step 3: load_airtable_data returns the mapping or exits with an error.
LoadAirtableData ==
    /\ pc = "load_airtable_data"
    /\ \/ /\ \E message \in {"Airtable API error", "Network error connecting to Airtable",
                            "Error fetching Airtable records"} :
               exit_with_error(message)
          /\ UNCHANGED airtable_data
       \/ /\ airtable_data' \in RecordSets(MaxRecords - Size(csv_data))
          /\ pc' = "compare_datasets"
          /\ UNCHANGED <<stderr, exit_status>>
    /\ UNCHANGED <<csv_data, pending, email, results, csv_time,
                   airtable_time, returned, exc, call, first, stdout>>

\* print_results(results): the header, then one line per row, in order.
print_results(rows) ==
    <<"operation,target,email">>
        \o [i \in 1..Len(rows) |-> <<rows[i][1], ",", rows[i][2], ",", rows[i][3]>>]

\* Step 5: main prints what compare_datasets returned and ends.
PrintResults ==
    /\ pc = "returned"
    /\ stdout' = stdout \o print_results(returned[1])
    /\ exit_status' = <<0>>
    /\ pc' = "exit"
    /\ UNCHANGED <<csv_data, airtable_data, pending, email, results, csv_time,
                   airtable_time, returned, exc, call, first, stderr>>

\* UncaughtException as if main caught the exception and printed the rows
\* built so far.
UncaughtException_Swallowed ==
    /\ pc = "raised"
    /\ stdout' = stdout \o print_results(results)
    /\ exit_status' = <<0>>
    /\ pc' = "exit"
    /\ UNCHANGED <<csv_data, airtable_data, pending, email, results, csv_time,
                   airtable_time, returned, exc, call, first, stderr>>

\* An exception leaves compare_datasets: main has no handler, the interpreter
\* prints the traceback and exits with status 1.
UncaughtException ==
    /\ pc = "raised"
    /\ stderr' = Append(stderr, <<"Traceback: ", exc>>)
    /\ exit_status' = <<1>>
    /\ pc' = "exit"
    /\ UNCHANGED <<csv_data, airtable_data, pending, email, results, csv_time,
                   airtable_time, returned, exc, call, first, stdout>>

----------------------------------------------------------------------------
(* Specifications. *)

\* The locals of compare_datasets and the outputs, before anything ran.
Fresh ==
    /\ pending = <<>>
    /\ email = <<>>
    /\ results = <<>>
    /\ csv_time = Unbound
    /\ airtable_time = Unbound
    /\ returned = <<>>
    /\ exc = None
    /\ call = "first"
    /\ first = [returned |-> <<>>, exc |-> None]
    /\ stdout = <<>>
    /\ stderr = <<>>
    /\ exit_status = <<>>

\* The run of the program.
Init ==
    /\ pc = "parse_arguments"
    /\ csv_data = EmptyDict
    /\ airtable_data = EmptyDict
    /\ Fresh

Next ==
    \/ ParseArguments
    \/ LoadCsvData
    \/ LoadAirtableData
    \/ CompareBegin
    \/ CompareIter
    \/ CompareReturn
    \/ PrintResults
    \/ UncaughtException

Spec ==
    Init /\ [][Next]_vars

\* compare_datasets called twice by a caller holding two RecordSets.
InitCore ==
    /\ pc = "compare_datasets"
    /\ csv_data \in RecordSets(MaxRecords)
    /\ airtable_data \in RecordSets(MaxRecords - Size(csv_data))
    /\ Fresh

NextCore ==
    \/ CompareBegin
    \/ CompareIter
    \/ CompareReturn
    \/ CallAgain

SpecCore ==
    InitCore /\ [][NextCore]_vars

----------------------------------------------------------------------------
(* Vocabulary of the properties. *)

InBoth ==
    DOMAIN csv_data \cap DOMAIN airtable_data

OnlyCsv ==
    DOMAIN csv_data \ DOMAIN airtable_data

OnlyAirtable ==
    DOMAIN airtable_data \ DOMAIN csv_data

\* The positions of the rows of a result that carry email e.
RowsOf(rows, e) ==
    {i \in 1..Len(rows) : rows[i][3] = e}

\* Result rows holds exactly one row for e, and it is row.
ExactlyRow(rows, e, row) ==
    /\ Cardinality(RowsOf(rows, e)) = 1
    /\ \A i \in RowsOf(rows, e) : rows[i] = row

\* The loop has visited email, a key of both mappings, in the current call.
Visited ==
    /\ pc \in {"for", "returned", "raised"}
    /\ email \in InBoth

\* s[i..i+9] reads dddd-dd-dd
DateShape(s, i) ==
    /\ Len(s) >= i + 9
    /\ AllDigits(SubSeq(s, i, i + 3)) /\ s[i + 4] = "-"
    /\ AllDigits(SubSeq(s, i + 5, i + 6)) /\ s[i + 7] = "-"
    /\ AllDigits(SubSeq(s, i + 8, i + 9))

\* s[i..i+4] reads dd:dd
HourMinuteShape(s, i) ==
    /\ Len(s) >= i + 4
    /\ AllDigits(SubSeq(s, i, i + 1)) /\ s[i + 2] = ":"
    /\ AllDigits(SubSeq(s, i + 3, i + 4))

\* s[i..i+7] reads dd:dd:dd
TimeShape(s, i) ==
    /\ Len(s) >= i + 7
    /\ HourMinuteShape(s, i) /\ s[i + 5] = ":"
    /\ AllDigits(SubSeq(s, i + 6, i + 7))

\* YYYY-MM-DDTHH:MM:SSZ
PlainZ(s) ==
    Len(s) = 20 /\ DateShape(s, 1) /\ s[11] = "T" /\ TimeShape(s, 12) /\ s[20] = "Z"

\* YYYY-MM-DDTHH:MM:SS.f...Z
FractionalZ(s) ==
    /\ Len(s) >= 22 /\ DateShape(s, 1) /\ s[11] = "T" /\ TimeShape(s, 12)
    /\ s[20] = "." /\ AllDigits(SubSeq(s, 21, Len(s) - 1)) /\ s[Len(s)] = "Z"

\* The fractional or the non-fractional ISO-8601-with-Z pattern.
IsoZ(s) ==
    PlainZ(s) \/ FractionalZ(s)

\* YYYY-MM-DD alone
DateOnly(s) ==
    Len(s) = 10 /\ DateShape(s, 1)

\* YYYY-MM-DDTHH:MM:SS with no designator
NoDesignator(s) ==
    Len(s) = 19 /\ DateShape(s, 1) /\ s[11] = "T" /\ TimeShape(s, 12)

\* YYYY-MM-DDTHH:MM:SS+HH:MM or -HH:MM
NumericOffset(s) ==
    /\ Len(s) = 25 /\ DateShape(s, 1) /\ s[11] = "T" /\ TimeShape(s, 12)
    /\ s[20] \in {"+", "-"} /\ HourMinuteShape(s, 21)

\* None of the ISO-8601 shapes: a string such as "not-a-date".
Malformed(s) ==
    ~(IsoZ(s) \/ DateOnly(s) \/ NoDesignator(s) \/ NumericOffset(s))

\* Two timestamps that differ only in the digits between '.' and the final Z.
DifferOnlyInFraction(s, t) ==
    /\ FractionalZ(s) /\ FractionalZ(t)
    /\ SubSeq(s, 1, 20) = SubSeq(t, 1, 20)
    /\ s # t

----------------------------------------------------------------------------
(* Properties of compare_datasets, checked under SpecCore. *)

\* C1: when compare_datasets returns, every key of both RecordSets whose two
\* parsed instants differ has exactly one row, an UPDATE, whose target is the
\* side with the smaller instant: AIRTABLE when the local (CSV) instant is the
\* greater, CSV when the remote one is.
C1_UpdateTargetsOlderSide ==
    pc = "returned" =>
        \A e \in InBoth :
            LET ct == Parsed[csv_data[e].updated_at]
                at == Parsed[airtable_data[e].updated_at]
            IN  ~DtEq(ct, at) =>
                    /\ DtGreater(ct, at) =>
                           ExactlyRow(returned[1], e, <<"UPDATE", "AIRTABLE", e>>)
                    /\ DtGreater(at, ct) =>
                           ExactlyRow(returned[1], e, <<"UPDATE", "CSV", e>>)
                    /\ DtGreater(ct, at) \/ DtGreater(at, ct)

\* A key with the later timestamp locally received UPDATE AIRTABLE.
C1_Witness ==
    /\ pc = "returned"
    /\ \E e \in InBoth :
         /\ csv_data[e].updated_at = TsLater
         /\ airtable_data[e].updated_at = TsBase
         /\ ExactlyRow(returned[1], e, <<"UPDATE", "AIRTABLE", e>>)

\* C2: when compare_datasets returns, every key present only locally has
\* exactly one row (CREATE, AIRTABLE, key), every key present only remotely
\* exactly one row (CREATE, CSV, key), and the result holds exactly |A| CREATE
\* AIRTABLE rows and |B| CREATE CSV rows.
C2_CreateTargetsOtherSide ==
    pc = "returned" =>
        LET rows == returned[1]
        IN  /\ \A e \in OnlyCsv : ExactlyRow(rows, e, <<"CREATE", "AIRTABLE", e>>)
            /\ \A e \in OnlyAirtable : ExactlyRow(rows, e, <<"CREATE", "CSV", e>>)
            /\ Cardinality({i \in 1..Len(rows) :
                   rows[i][1] = "CREATE" /\ rows[i][2] = "AIRTABLE"}) = Cardinality(OnlyCsv)
            /\ Cardinality({i \in 1..Len(rows) :
                   rows[i][1] = "CREATE" /\ rows[i][2] = "CSV"}) = Cardinality(OnlyAirtable)

\* A run with a key on each side only, both rows delivered.
C2_Witness ==
    /\ pc = "returned"
    /\ OnlyCsv # {} /\ OnlyAirtable # {}
    /\ \E i, j \in 1..Len(returned[1]) :
         /\ returned[1][i][2] = "AIRTABLE" /\ returned[1][i][1] = "CREATE"
         /\ returned[1][j][2] = "CSV" /\ returned[1][j][1] = "CREATE"

\* C3: when compare_datasets returns, every key of both RecordSets whose two
\* timestamps parse to equal instants has exactly one row, (NONE, "", key);
\* and a row has the empty target exactly when its kind is NONE.
C3_TieIsNone ==
    pc = "returned" =>
        /\ \A e \in InBoth :
               DtEq(Parsed[csv_data[e].updated_at],
                    Parsed[airtable_data[e].updated_at])
                   => ExactlyRow(returned[1], e, <<"NONE", "", e>>)
        /\ \A i \in 1..Len(returned[1]) :
               (returned[1][i][2] = "") <=> (returned[1][i][1] = "NONE")

\* A tie between two different strings of the same instant
\* (10:00:00Z and 12:00:00+02:00) received NONE.
C3_Witness ==
    /\ pc = "returned"
    /\ \E e \in InBoth :
         /\ csv_data[e].updated_at = TsBase
         /\ airtable_data[e].updated_at = TsOffset
         /\ ExactlyRow(returned[1], e, <<"NONE", "", e>>)

\* C4 as stated: whenever some record, of a key in both RecordSets or in only
\* one, has an unparseable updated_at, compare_datasets returns no result.
C4_Original ==
    (\/ \E e \in DOMAIN csv_data : Malformed(csv_data[e].updated_at)
     \/ \E e \in DOMAIN airtable_data : Malformed(airtable_data[e].updated_at))
        => pc # "returned"

\* C4 (amended): a key present in both RecordSets with an unparseable
\* updated_at on either side makes compare_datasets raise, so no result is ever
\* returned and no row is built for that key; a ValueError leaves the loop only
\* at such a key. A key present in only one RecordSet is classified CREATE
\* whatever its updated_at, which is never parsed.
C4_MalformedSharedKeyFails ==
    /\ (\E e \in InBoth : \/ Malformed(csv_data[e].updated_at)
                          \/ Malformed(airtable_data[e].updated_at))
           => /\ pc # "returned"
              /\ returned = <<>>
              /\ first.returned = <<>>
    /\ pc \in {"for", "returned", "raised"} =>
           \A i \in 1..Len(results) :
               results[i][3] \in InBoth =>
                   /\ ~Malformed(csv_data[results[i][3]].updated_at)
                   /\ ~Malformed(airtable_data[results[i][3]].updated_at)
    /\ (pc = "raised" /\ exc = "ValueError") =>
           /\ email \in InBoth
           /\ \/ Malformed(csv_data[email].updated_at)
              \/ Malformed(airtable_data[email].updated_at)
    /\ pc = "returned" =>
           /\ \A e \in OnlyCsv : Malformed(csv_data[e].updated_at) =>
                  ExactlyRow(returned[1], e, <<"CREATE", "AIRTABLE", e>>)
           /\ \A e \in OnlyAirtable : Malformed(airtable_data[e].updated_at) =>
                  ExactlyRow(returned[1], e, <<"CREATE", "CSV", e>>)

\* "not-a-date" on the remote side of a shared key: the call raised ValueError
\* after a row had already been built for an earlier key.
C4_Witness ==
    /\ pc = "raised"
    /\ exc = "ValueError"
    /\ email \in InBoth
    /\ airtable_data[email].updated_at = TsGarbage
    /\ ~Malformed(csv_data[email].updated_at)
    /\ results # <<>>
    /\ returned = <<>>

\* C5: when compare_datasets returns, the result has exactly one row per key
\* of the union of the two key sets, no row for any other key, and the row
\* keys are strictly ascending in str order.
C5_SortedUnion ==
    pc = "returned" =>
        LET rows == returned[1]
            union == DOMAIN csv_data \cup DOMAIN airtable_data
        IN  /\ Len(rows) = Cardinality(union)
            /\ \A e \in union : Cardinality(RowsOf(rows, e)) = 1
            /\ \A i \in 1..Len(rows) : rows[i][3] \in union
            /\ \A i \in 1..(Len(rows) - 1) : StrLess(rows[i][3], rows[i + 1][3])

\* Three keys returned in the order B@x.com, a@x.co, a@x.com.
C5_Witness ==
    /\ pc = "returned"
    /\ Len(returned[1]) = 3
    /\ returned[1][1][3] = EmailUpperB
    /\ returned[1][2][3] = EmailPrefix
    /\ returned[1][3][3] = EmailA

\* C7: a key of both RecordSets whose two timestamps differ only in the
\* fractional digits before the trailing Z is given equal instants by
\* parse_timestamp and the row (NONE, "", key) by the loop.
C7_TruncationEquivalence ==
    (Visited /\ DifferOnlyInFraction(csv_data[email].updated_at,
                                     airtable_data[email].updated_at))
        => /\ pc # "raised"
           /\ DtEq(csv_time, airtable_time)
           /\ csv_time.raises = None
           /\ results # <<>>
           /\ results[Len(results)] = <<"NONE", "", email>>

\* .123456Z locally and .999999Z remotely, classified NONE.
C7_Witness ==
    /\ Visited
    /\ csv_data[email].updated_at = TsFracA
    /\ airtable_data[email].updated_at = TsFracB
    /\ results # <<>>
    /\ results[Len(results)] = <<"NONE", "", email>>

\* C8: the second call of compare_datasets on the same two RecordSets delivers
\* what the first delivered: the same rows in the same order, or the same
\* exception.
C8_Idempotent ==
    (call = "second" /\ pc \in {"returned", "raised"})
        => /\ returned = first.returned
           /\ exc = first.exc

\* A second call that returned at least two rows.
C8_Witness ==
    /\ call = "second"
    /\ pc = "returned"
    /\ Len(returned[1]) >= 2
    /\ first.returned = returned

\* C9 as stated: a timestamp that matches neither ISO-8601-with-Z pattern makes
\* parse_timestamp fail, so the iteration that parses it raises ValueError.
C9_Original ==
    Visited =>
        ((~IsoZ(csv_data[email].updated_at) \/ ~IsoZ(airtable_data[email].updated_at))
            => (pc = "raised" /\ exc = "ValueError"))

\* C9 (amended): parse_timestamp raises ValueError for a string of no ISO-8601
\* shape; it accepts both ISO-8601-with-Z patterns, returning an aware (UTC)
\* datetime without fraction, and it also accepts ISO-8601 strings without the
\* trailing Z: a date alone or a date-time without designator (a naive
\* datetime) and a date-time with a numeric offset (an aware one).
C9_AcceptsIsoRejectsRest ==
    Visited =>
        LET s == csv_data[email].updated_at
            t == airtable_data[email].updated_at
        IN  /\ Malformed(s) => (pc = "raised" /\ exc = "ValueError")
            /\ (~Malformed(s) /\ Malformed(t)) => (pc = "raised" /\ exc = "ValueError")
            /\ ~Malformed(s) =>
                   /\ csv_time.raises = None
                   /\ IsoZ(s) => (csv_time.aware /\ csv_time.us = 0)
                   /\ NumericOffset(s) => csv_time.aware
                   /\ (DateOnly(s) \/ NoDesignator(s)) => ~csv_time.aware
            /\ (~Malformed(s) /\ ~Malformed(t)) =>
                   /\ exc # "ValueError"
                   /\ airtable_time.raises = None
                   /\ IsoZ(t) => (airtable_time.aware /\ airtable_time.us = 0)
                   /\ NumericOffset(t) => airtable_time.aware
                   /\ (DateOnly(t) \/ NoDesignator(t)) => ~airtable_time.aware

\* A date without a time and a Z timestamp both parsed (the naive one cannot
\* be ordered against the aware one: TypeError, not ValueError).
C9_Witness ==
    /\ Visited
    /\ csv_data[email].updated_at = TsDateOnly
    /\ airtable_data[email].updated_at = TsFracA
    /\ csv_time.raises = None /\ ~csv_time.aware
    /\ airtable_time.raises = None /\ airtable_time.aware
    /\ exc = "TypeError"

\* C10: no step of compare_datasets changes either input mapping: the keys and
\* every attribute of every record, the untruncated updated_at included, stay
\* as they were, whether the call returns or raises.
C10_InputsUnchanged ==
    [][csv_data' = csv_data /\ airtable_data' = airtable_data]_vars

\* A call that parsed and truncated a fractional timestamp has returned, and
\* the record still holds the untruncated string.
C10_Witness ==
    /\ pc = "returned"
    /\ call = "second"
    /\ email \in InBoth
    /\ csv_data[email].updated_at = TsFracA
    /\ csv_time.us = 0

----------------------------------------------------------------------------
(* Property of main, checked under Spec. *)

\* C6: a failed run prints nothing and exits with a non-zero status: after an
\* error message or a traceback, and while an exception is propagating,
\* stdout is empty and the only continuation is the exit with status 1 (2 for
\* argparse's usage error); stdout is written only once both mappings are
\* loaded and compare_datasets has returned the complete sequence, and then it
\* is that sequence's report and the status is 0.
C6_FailurePrintsNothing ==
    /\ (pc = "exit") <=> (exit_status # <<>>)
    /\ exit_status \in {<<>>, <<0>>, <<1>>, <<2>>}
    /\ (stderr # <<>> \/ pc = "raised" \/ exit_status \in {<<1>>, <<2>>}) =>
           /\ stdout = <<>>
           /\ exit_status # <<0>>
           /\ pc \in {"raised", "exit"}
    /\ pc = "raised" => (ENABLED UncaughtException /\ ~ENABLED PrintResults)
    /\ pc = "exit" => (stderr # <<>>) # (exit_status = <<0>>)
    /\ stdout # <<>> =>
           /\ pc = "exit" /\ exit_status = <<0>>
           /\ returned # <<>>
           /\ Len(returned[1]) = Cardinality(DOMAIN csv_data \cup DOMAIN airtable_data)
           /\ stdout = print_results(returned[1])

\* The malformed-input scenario: "not-a-date" remotely under a key that is
\* also local; the run has exited with status 1 and printed nothing.
C6_Witness ==
    /\ pc = "exit"
    /\ exit_status = <<1>>
    /\ exc = "ValueError"
    /\ email \in InBoth
    /\ airtable_data[email].updated_at = TsGarbage
    /\ results # <<>>
    /\ stdout = <<>>

====
